---- MODULE Spec2Model ----
(***************************************************************************)
(* Client-side state synchronisation of the stock dashboard:               *)
(*   - ApiClient (src/src/services/api.js): request/handleError,           *)
(*   - the mock-data record kept in localStorage (src/src/utils/mockData), *)
(*   - WatchlistProvider and PortfolioProvider (src/unnamed/part_003).     *)
(*                                                                         *)
(* React is modelled as follows.  All setState calls made by one           *)
(* synchronous stretch of code (up to the next await on a remote call)     *)
(* are committed together, then the effects whose dependencies changed     *)
(* run; one action of the model is one such stretch together with the      *)
(* render and the effects that follow it.  A callback created by           *)
(* useCallback sees the state of the render it was created in: an          *)
(* operation captures the values it closes over when it is invoked and     *)
(* keeps them across its awaits.                                           *)
(***************************************************************************)
EXTENDS Integers, Sequences, FiniteSets, TLC

VARIABLES
    \* ---- ApiClient.request ----
    apiPc,          \* "idle" | "fetching" | "errorBody" | "okBody" | "done" | "rejected"
    authToken,      \* localStorage[STORAGE_KEYS.AUTH_TOKEN]: a token is stored or not
    elapsed,        \* time units since setTimeout was armed
    aborted,        \* controller.signal.aborted of the call in progress
    apiTimeout,     \* the timeout option of the call in progress
    apiResp,        \* the Response fetch resolved with (status, content type, body code)
    apiResult,      \* what request() settled with
    \* ---- browser storage shared by the providers ----
    localStorage,   \* key -> text (a sequence of JSON tokens) or NoItem
    \* ---- a snapshot written to and read back from localStorage ----
    rt,
    \* ---- the provider this behaviour follows, and its React state ----
    provider,           \* "none" | "watchlist" | "portfolio"
    watchlists,         \* useState([])
    watchlistsIsConst,  \* `watchlists` is the imported mockWatchlists array itself
    currentWatchlist,   \* useState(null)
    items,              \* useState([])
    portfolios,         \* useState([])
    currentPortfolio,   \* useState(null)
    holdings,           \* useState([])
    transactions,       \* useState([])
    loading,            \* useState(false)
    error,              \* useState(null)
    \* ---- the asynchronous operations ----
    calls,              \* remote calls awaited, in the order they were issued
    invoked,            \* operations invoked by the user interface so far
    now,                \* Date.now()
    remote,             \* the records held by the backend
    ev,                 \* the last step of an operation (history)
    cached              \* key -> the data last written under the key (history)

NULL == "null"
NoItem == <<"no item">>

apiVars == <<apiPc, authToken, elapsed, aborted, apiTimeout, apiResp, apiResult>>
watchlistVars == <<watchlists, watchlistsIsConst, currentWatchlist, items>>
portfolioVars == <<portfolios, currentPortfolio, holdings, transactions>>
providerVars ==
    <<provider, watchlistVars, portfolioVars, loading, error, calls, invoked, now, remote,
      ev, cached>>
vars == <<apiVars, localStorage, rt, providerVars>>

(***************************************************************************)
(* Values shared by the providers                                          *)
(***************************************************************************)

\* null for the selected watchlist / portfolio (null?.id is undefined)
NoSelection == [id |-> "null", name |-> "null"]
NoError == "null"

NoCont == [k |-> "none", id |-> "null", cur |-> "null", data |-> NoSelection]
NoEvent == [name |-> "none"]
NoSnapshot == [written |-> FALSE]

\* no provider mounted: the state of the ApiClient and snapshot specifications
ProviderIdle ==
    /\ provider = "none"
    /\ watchlists = <<>> /\ watchlistsIsConst = FALSE
    /\ currentWatchlist = NoSelection /\ items = <<>>
    /\ portfolios = <<>> /\ currentPortfolio = NoSelection
    /\ holdings = <<>> /\ transactions = <<>>
    /\ loading = FALSE /\ error = NoError
    /\ calls = <<>> /\ invoked = 0 /\ now = 0
    /\ remote = <<>>
    /\ ev = NoEvent
    /\ cached = [k \in {"mockWatchlistData", "mockPortfolioData"} |-> NoSnapshot]

(***************************************************************************)
(* ApiClient                                                               *)
(***************************************************************************)

\* this.timeout = 30000 ms; one time unit of the model is one second
DefaultTimeout == 30
\* a per-call timeout option shorter than the default
ShortTimeout == 2

TimeoutOptions == {DefaultTimeout, ShortTimeout}

\* statuses fetch can resolve with (response.ok is status in 200..299)
Statuses == {200, 401, 404, 500}
ResponseOk(status) == status \in 200..299

\* content-type header: does it include 'application/json'
ContentTypes == {"json", "text"}

\* the `code` member of a JSON error body: absent, or a string chosen by the server
NoCode == "absent"
BodyCodes == {NoCode, "VALIDATION_ERROR", "TIMEOUT_ERROR"}

NoResp == [status |-> 0, contentType |-> "none", code |-> NoCode]
NoResult == [settled |-> "pending"]

\* `HTTP_${response.status}`
HttpCode(status) ==
    CASE status = 401 -> "HTTP_401"
      [] status = 404 -> "HTTP_404"
      [] status = 500 -> "HTTP_500"
      [] OTHER -> "HTTP_other"

Envelope(success, code, status) ==
    [settled |-> "resolved", success |-> success, code |-> code, status |-> status]
Rejected == [settled |-> "rejected"]

\* setAuthToken(token): a falsy token removes the stored one
SetAuthToken(token) == IF token # NULL THEN TRUE ELSE FALSE

\* handleError(error, null): no response at all
NetworkError == Envelope(FALSE, "NETWORK_ERROR", 0)

\* handleError(null, response), content type not JSON: the switch on the status
\* (the message differs per status; code and status are those of errorData)
HandleErrorPlain(status) == Envelope(FALSE, HttpCode(status), status)

\* handleError(null, response), JSON content type, body parsed:
\* code: data.code || `HTTP_${response.status}`
HandleErrorJson(status, code) ==
    Envelope(FALSE, IF code # NoCode THEN code ELSE HttpCode(status), status)

TimeoutError == Envelope(FALSE, "TIMEOUT_ERROR", 0)

\* a catch block that does not tell an abort from any other error
RequestCatchNoAbort(errorName) == NetworkError

\* the catch block of request(): error.name === 'AbortError' is the timeout,
\* every other error goes to handleError(error, null)
RequestCatch(errorName) ==
    IF errorName = "AbortError" THEN TimeoutError ELSE NetworkError

\* request(endpoint, options): arms the timer and calls fetch
ApiRequest(timeout) ==
    /\ apiPc = "idle"
    /\ apiPc' = "fetching"
    /\ elapsed' = 0
    /\ aborted' = FALSE
    /\ apiTimeout' = timeout
    /\ apiResp' = NoResp
    /\ apiResult' = NoResult
    /\ UNCHANGED <<authToken, localStorage, rt, providerVars>>

\* time passes while fetch is pending (timer armed) or while a body is read
\* (timer cleared); the timer fires when `elapsed` reaches the timeout
ApiTick ==
    /\ \/ apiPc = "fetching" /\ elapsed < apiTimeout
       \/ apiPc \in {"errorBody", "okBody"} /\ elapsed <= apiTimeout
    /\ elapsed' = elapsed + 1
    /\ UNCHANGED <<apiPc, authToken, aborted, apiTimeout, apiResp, apiResult, localStorage, rt, providerVars>>

\* setTimeout(() => controller.abort(), timeout): fetch rejects with AbortError,
\* the catch block returns the timeout envelope
ApiTimerFires ==
    /\ apiPc = "fetching"
    /\ elapsed = apiTimeout
    /\ apiPc' = "done"
    /\ aborted' = TRUE
    /\ apiResult' = RequestCatch("AbortError")
    /\ UNCHANGED <<authToken, elapsed, apiTimeout, apiResp, localStorage, rt, providerVars>>

\* fetch rejects (TypeError: the transport failed): catch, not an AbortError
ApiFetchRejects ==
    /\ apiPc = "fetching"
    /\ apiPc' = "done"
    /\ apiResult' = RequestCatch("TypeError")
    /\ UNCHANGED <<authToken, elapsed, aborted, apiTimeout, apiResp, localStorage, rt, providerVars>>

\* fetch resolves with a Response before the timer fired; clearTimeout.
\*   !response.ok: handleError(null, response)
\*       JSON content type: return response.json().then(...)   (body still to read)
\*       otherwise: the switch; 401 clears the token
\*   response.ok: await response.json() / response.text()      (body still to read)
ApiFetchResolves(status, contentType) ==
    /\ apiPc = "fetching"
    /\ apiResp' = [status |-> status, contentType |-> contentType, code |-> NoCode]
    /\ IF ResponseOk(status)
       THEN /\ apiPc' = "okBody"
            /\ UNCHANGED <<authToken, apiResult>>
       ELSE IF contentType = "json"
       THEN /\ apiPc' = "errorBody"
            /\ UNCHANGED <<authToken, apiResult>>
       ELSE /\ apiPc' = "done"
            /\ apiResult' = HandleErrorPlain(status)
            /\ authToken' = IF status = 401 THEN SetAuthToken(NULL) ELSE authToken
    /\ UNCHANGED <<elapsed, aborted, apiTimeout, localStorage, rt, providerVars>>

\* response.json() of an error response settles.  The promise returned by
\* handleError is returned by request() without await, so its rejection is
\* not caught by request()'s catch block: request() rejects.
ApiErrorBodyRead(wellFormed, code) ==
    /\ apiPc = "errorBody"
    /\ IF wellFormed
       THEN /\ apiPc' = "done"
            /\ apiResp' = [apiResp EXCEPT !.code = code]
            /\ apiResult' = HandleErrorJson(apiResp.status, code)
       ELSE /\ apiPc' = "rejected"
            /\ apiResp' = apiResp
            /\ apiResult' = Rejected
    /\ UNCHANGED <<authToken, elapsed, aborted, apiTimeout, localStorage, rt, providerVars>>

\* await response.json() / response.text() of an ok response settles.  A
\* body that cannot be read or parsed throws (SyntaxError, TypeError) inside
\* the try block: the catch block maps it.
ApiOkBodyRead(wellFormed) ==
    /\ apiPc = "okBody"
    /\ apiPc' = "done"
    /\ apiResult' = IF wellFormed
                    THEN Envelope(TRUE, "none", apiResp.status)
                    ELSE RequestCatch("SyntaxError")
    /\ UNCHANGED <<authToken, elapsed, aborted, apiTimeout, apiResp, localStorage, rt, providerVars>>

\* the caller has its answer; the client is ready for the next call
ApiReturn ==
    /\ apiPc \in {"done", "rejected"}
    /\ apiPc' = "idle"
    /\ UNCHANGED <<authToken, elapsed, aborted, apiTimeout, apiResp, apiResult, localStorage, rt, providerVars>>

\* a login stores a token: apiClient.setAuthToken(token)
ApiLogin ==
    /\ apiPc = "idle"
    /\ ~authToken
    /\ authToken' = SetAuthToken("token")
    /\ UNCHANGED <<apiPc, elapsed, aborted, apiTimeout, apiResp, apiResult, localStorage, rt, providerVars>>

RtIdle == [pc |-> "idle"]

InitApiVars ==
    /\ apiPc = "idle"
    /\ elapsed = 0
    /\ aborted = FALSE
    /\ apiTimeout = DefaultTimeout
    /\ apiResp = NoResp
    /\ apiResult = NoResult

\* nothing is stored under the mock-data keys
StorageEmpty == [k \in {"mockWatchlistData", "mockPortfolioData"} |-> NoItem]

InitApi ==
    InitApiVars /\ authToken \in BOOLEAN /\ localStorage = StorageEmpty /\ rt = RtIdle /\ ProviderIdle

NextApi ==
    \/ \E t \in TimeoutOptions : ApiRequest(t)
    \/ ApiTick
    \/ ApiTimerFires
    \/ ApiFetchRejects
    \/ \E s \in Statuses, ct \in ContentTypes : ApiFetchResolves(s, ct)
    \/ \E wf \in BOOLEAN, c \in BodyCodes : ApiErrorBodyRead(wf, c)
    \/ \E wf \in BOOLEAN : ApiOkBodyRead(wf)
    \/ ApiReturn
    \/ ApiLogin

SpecApi == InitApi /\ [][NextApi]_vars

(***************************************************************************)
(* The mock-data record in localStorage                                    *)
(***************************************************************************)

SharedKey == "mockPortfolioData"      \* one key for both providers
WatchlistKey == "mockWatchlistData"
PortfolioKey == "mockPortfolioData"
StorageKeys == {WatchlistKey, PortfolioKey}

\* A text is a sequence of tokens: the punctuation of JSON and strings.
Punctuation == {"{", "}", "[", "]", ":"}

\* member order of the objects written by loadMockData
WatchlistFields == <<"id", "name">>
ItemFields == <<"id", "watchlistId", "symbol">>

RECURSIVE StringifyMembers(_, _)
StringifyMembers(fields, obj) ==
    IF fields = <<>> THEN <<>>
    ELSE <<Head(fields), ":", obj[Head(fields)]>> \o StringifyMembers(Tail(fields), obj)

StringifyObject(fields, obj) == <<"{">> \o StringifyMembers(fields, obj) \o <<"}">>

RECURSIVE StringifyElements(_, _)
StringifyElements(fields, arr) ==
    IF arr = <<>> THEN <<>>
    ELSE StringifyObject(fields, Head(arr)) \o StringifyElements(fields, Tail(arr))

StringifyArray(fields, arr) == <<"[">> \o StringifyElements(fields, arr) \o <<"]">>

\* JSON.stringify(watchlistData), watchlistData = {watchlists, items}
StringifyWatchlistData(data) ==
    <<"{", "watchlists", ":">> \o StringifyArray(WatchlistFields, data.watchlists)
        \o <<"items", ":">> \o StringifyArray(ItemFields, data.items) \o <<"}">>

\* JSON.parse: objects become functions on their keys, arrays sequences,
\* strings themselves; `ok` is FALSE where JSON.parse throws a SyntaxError.
ParseFail == [ok |-> FALSE, kind |-> "none", val |-> <<>>, rest |-> <<>>]

RECURSIVE ParseValue(_), ParseMembers(_, _), ParseElements(_, _)
ParseValue(t) ==
    IF t = <<>> THEN ParseFail
    ELSE IF Head(t) = "{" THEN ParseMembers(Tail(t), <<>>)
    ELSE IF Head(t) = "[" THEN ParseElements(Tail(t), <<>>)
    ELSE IF Head(t) \in Punctuation THEN ParseFail
    ELSE [ok |-> TRUE, kind |-> "string", val |-> Head(t), rest |-> Tail(t)]

ParseMembers(t, acc) ==
    IF t = <<>> THEN ParseFail
    ELSE IF Head(t) = "}"
    THEN [ok |-> TRUE, kind |-> "object", val |-> acc, rest |-> Tail(t)]
    ELSE IF Len(t) < 3 \/ Head(t) \in Punctuation \/ t[2] # ":" THEN ParseFail
    ELSE LET v == ParseValue(SubSeq(t, 3, Len(t)))
         IN  IF ~v.ok THEN ParseFail
             ELSE ParseMembers(v.rest, (Head(t) :> v.val) @@ acc)

ParseElements(t, acc) ==
    IF t = <<>> THEN ParseFail
    ELSE IF Head(t) = "]"
    THEN [ok |-> TRUE, kind |-> "array", val |-> acc, rest |-> Tail(t)]
    ELSE LET v == ParseValue(t)
         IN  IF ~v.ok THEN ParseFail
             ELSE ParseElements(v.rest, Append(acc, v.val))

JsonParse(text) ==
    LET v == ParseValue(text)
    IN  IF v.ok /\ v.rest = <<>> THEN v ELSE ParseFail

\* safeParseMockData: what it returns ...
\*   getItem gives null, or the text is empty: null
\*   JSON.parse throws: null (and the record is removed, see below)
Absent == [present |-> FALSE, kind |-> "none", val |-> <<>>]
SafeParseMockData(text) ==
    IF text = NoItem \/ text = <<>> THEN Absent
    ELSE LET v == JsonParse(text)
         IN  IF v.ok THEN [present |-> TRUE, kind |-> v.kind, val |-> v.val]
             ELSE Absent

\* ... and what it leaves in localStorage under its key: removeItem in the catch
AfterSafeParseKept(text) == text                    \* no removeItem
AfterSafeParse(text) ==
    IF text = NoItem \/ text = <<>> THEN text
    ELSE IF JsonParse(text).ok THEN text ELSE NoItem

\* mockData && mockData.<key>
HasMember(mockData, key) ==
    /\ mockData.present
    /\ mockData.kind = "object"
    /\ key \in DOMAIN mockData.val

\* arr.filter(item => item.watchlistId === watchlistId)
FilterByItemId(arr, watchlistId) ==   \* the filter on the wrong member
    SelectSeq(arr, LAMBDA item : item.id = watchlistId)
FilterNothing(arr, watchlistId) == arr   \* no filter
FilterByWatchlist(arr, watchlistId) ==
    SelectSeq(arr, LAMBDA item : item.watchlistId = watchlistId)

(***************************************************************************)
(* Round trip of a snapshot through localStorage                           *)
(***************************************************************************)

MaxSnapWatchlists == 1
MaxSnapItems == 2

SnapWatchlistIds == {"w1", "w2"}
SnapWatchlists == [id : SnapWatchlistIds, name : {"Tech"}]
SnapItems == [id : {"i1", "i2"}, watchlistId : SnapWatchlistIds, symbol : {"MSFT"}]

SeqsUpTo(S, n) == UNION {[1..k -> S] : k \in 0..n}

Snapshots ==
    [watchlists : SeqsUpTo(SnapWatchlists, MaxSnapWatchlists),
     items : SeqsUpTo(SnapItems, MaxSnapItems)]

NoData == [present |-> FALSE, kind |-> "none", val |-> <<>>]

InitCache ==
    /\ InitApiVars
    /\ authToken = FALSE
    /\ localStorage = StorageEmpty
    /\ ProviderIdle
    /\ \E snap \in Snapshots, p \in SnapWatchlistIds :
          rt = [pc |-> "start", snapshot |-> snap, parent |-> p,
                data |-> NoData, items |-> <<>>]

\* localStorage.setItem('mockWatchlistData', JSON.stringify(watchlistData))
CacheWrite ==
    /\ rt.pc = "start"
    /\ localStorage' =
          [localStorage EXCEPT ![WatchlistKey] = StringifyWatchlistData(rt.snapshot)]
    /\ rt' = [rt EXCEPT !.pc = "written"]
    /\ UNCHANGED <<apiVars, providerVars>>

\* const mockData = safeParseMockData()
CacheRead ==
    /\ rt.pc = "written"
    /\ rt' = [rt EXCEPT !.pc = "read",
                        !.data = SafeParseMockData(localStorage[WatchlistKey])]
    /\ localStorage' =
          [localStorage EXCEPT ![WatchlistKey] = AfterSafeParse(localStorage[WatchlistKey])]
    /\ UNCHANGED <<apiVars, providerVars>>

\* mockData.items.filter((item) => item.watchlistId === watchlistId)
CacheFilter ==
    /\ rt.pc = "read"
    /\ HasMember(rt.data, "watchlists")
    /\ HasMember(rt.data, "items")
    /\ rt' = [rt EXCEPT !.pc = "filtered",
                        !.items = FilterByWatchlist(rt.data.val.items, rt.parent)]
    /\ UNCHANGED <<apiVars, localStorage, providerVars>>

NextCache == CacheWrite \/ CacheRead \/ CacheFilter

SpecCache == InitCache /\ [][NextCache]_vars

(***************************************************************************)
(* Data of the watchlist provider                                          *)
(***************************************************************************)

\* mockWatchlists and mockWatchlistItems of mockData.js (id, name / id,
\* watchlistId, symbol of each entry)
mockWatchlists ==
    << [id |-> "watchlist-1", name |-> "Tech Stocks"],
       [id |-> "watchlist-2", name |-> "High Dividend"] >>

mockWatchlistItems ==
    << [id |-> "watch-1", watchlistId |-> "watchlist-1", symbol |-> "META"],
       [id |-> "watch-2", watchlistId |-> "watchlist-1", symbol |-> "NFLX"],
       [id |-> "watch-3", watchlistId |-> "watchlist-1", symbol |-> "AMD"] >>

\* the data and the text loadMockData stores under 'mockWatchlistData'
MockWatchlistData == [watchlists |-> mockWatchlists, items |-> mockWatchlistItems]
MockWatchlistText == StringifyWatchlistData(MockWatchlistData)

\* the mock data of an earlier build, whose loadMockData left its record
EarlierWatchlistData ==
    [watchlists |-> << [id |-> "watchlist-0", name |-> "Earlier"] >>,
     items |-> << [id |-> "watch-0", watchlistId |-> "watchlist-0", symbol |-> "IBM"] >>]

\* a record cut short: JSON.parse throws on it
Truncated(text) == SubSeq(text, 1, Len(text) - 1)

\* the watchlists and items the backend holds when the provider mounts
RemoteWatchlists ==
    << [id |-> "watchlist-9", name |-> "Remote"],
       [id |-> "watchlist-1", name |-> "Remote"] >>
RemoteItems ==
    << [id |-> "remote-item-1", watchlistId |-> "watchlist-1", symbol |-> "AAPL"],
       [id |-> "remote-item-9", watchlistId |-> "watchlist-9", symbol |-> "MSFT"] >>

\* bounds of the model
MaxInvocations == 2
MaxInFlight == 2
MaxNow == 1
MaxRemoteCreates == 1
MaxRemoteAdds == 1

\* ids the backend gives to what it creates
CreatedIds == <<"created-1", "created-2", "created-3">>
AddedIds == <<"added-1", "added-2", "added-3">>
\* `item_${Date.now()}`
LocalItemIds == <<"item_0", "item_1", "item_2", "item_3">>
LocalItemId(t) == LocalItemIds[t + 1]

\* symbol.toUpperCase()
ToUpperCase(symbol) ==
    CASE symbol = "aapl" -> "AAPL"
      [] OTHER -> symbol
SymbolsTyped == {"aapl"}

\* how a remote call ends: a success envelope, an error envelope, a rejection
Outcomes == {"ok", "err", "throw"}

Ids(seq) == {seq[i].id : i \in DOMAIN seq}

\* the first element in place of null
FindOrFirst(seq, id) ==
    IF id \in Ids(seq)
    THEN seq[CHOOSE i \in DOMAIN seq :
                 seq[i].id = id /\ \A j \in 1..(i - 1) : seq[j].id # id]
    ELSE IF seq = <<>> THEN NoSelection ELSE seq[1]

\* seq.find(x => x.id === id) || null
Find(seq, id) ==
    IF id \in Ids(seq)
    THEN seq[CHOOSE i \in DOMAIN seq :
                 seq[i].id = id /\ \A j \in 1..(i - 1) : seq[j].id # id]
    ELSE NoSelection

\* seq.filter(x => x.id !== id)
Without(seq, id) == SelectSeq(seq, LAMBDA x : x.id # id)

RemoveAt(seq, i) == SubSeq(seq, 1, i - 1) \o SubSeq(seq, i + 1, Len(seq))

\* A remote call in flight, with what the operation awaiting it holds in its
\* closure.  overtaken records that an operation of the same kind, invoked
\* later, has returned while this call was pending.  switch records the
\* watchlist the user selected while an addStock on another one was awaiting.
Call(op, arg, cur, its, cont, byRule) ==
    [op |-> op, arg |-> arg, cur |-> cur, its |-> its, cont |-> cont, byRule |-> byRule,
     overtaken |-> FALSE, switch |-> "null"]

\* selectWatchlist(id) is invoked while addStock calls on other watchlists await
AddStockAwaits(cs, id) == \E n \in DOMAIN cs : cs[n].op = "addStock" /\ cs[n].cur # id
Switched(cs, id) ==
    [n \in DOMAIN cs |->
        IF cs[n].op = "addStock" /\ cs[n].cur # id THEN [cs[n] EXCEPT !.switch = id]
        ELSE cs[n]]
\* the selected watchlist was not found: the selection is no longer on record
Unswitched(cs, missed) ==
    [n \in DOMAIN cs |-> IF missed THEN [cs[n] EXCEPT !.switch = "null"] ELSE cs[n]]

\* the calls in flight when the operation awaiting calls[i] returns: nothing
\* cancels the calls of the operations of that kind invoked before it
Overtake(cs, i, kind) ==
    RemoveAt([n \in DOMAIN cs |->
                 IF n < i /\ cs[n].op \in kind THEN [cs[n] EXCEPT !.overtaken = TRUE]
                 ELSE cs[n]], i)

\* setError(null) at the start of a fetch and of a selection
EntryErrorKept(err) == err                            \* the error left as it is
EntryError(err) == NoError

(***************************************************************************)
(* Data of the portfolio provider                                          *)
(***************************************************************************)

\* mockPortfolios, and the first entries of mockHoldings and mockTransactions
\* (all holdings and transactions of the mock data belong to portfolio-1)
mockPortfolios ==
    << [id |-> "portfolio-1", name |-> "Growth Portfolio"],
       [id |-> "portfolio-2", name |-> "Dividend Portfolio"] >>

mockHoldings ==
    << [id |-> "holding-1", portfolioId |-> "portfolio-1", symbol |-> "AAPL"],
       [id |-> "holding-2", portfolioId |-> "portfolio-1", symbol |-> "MSFT"] >>

mockTransactions ==
    << [id |-> "tx-1", portfolioId |-> "portfolio-1", symbol |-> "AAPL"],
       [id |-> "tx-2", portfolioId |-> "portfolio-1", symbol |-> "MSFT"] >>

PortfolioFields == <<"id", "name">>
HoldingFields == <<"id", "portfolioId", "symbol">>

\* JSON.stringify(portfolioData), portfolioData = {portfolios, holdings, transactions}
StringifyPortfolioData(data) ==
    <<"{", "portfolios", ":">> \o StringifyArray(PortfolioFields, data.portfolios)
        \o <<"holdings", ":">> \o StringifyArray(HoldingFields, data.holdings)
        \o <<"transactions", ":">> \o StringifyArray(HoldingFields, data.transactions)
        \o <<"}">>

\* the data and the text loadMockData stores under 'mockPortfolioData'
MockPortfolioData ==
    [portfolios |-> mockPortfolios, holdings |-> mockHoldings,
     transactions |-> mockTransactions]
MockPortfolioText == StringifyPortfolioData(MockPortfolioData)

\* the mock data of an earlier build, whose loadMockData left its record
EarlierPortfolioData ==
    [portfolios |-> << [id |-> "portfolio-0", name |-> "Earlier"] >>,
     holdings |-> << [id |-> "holding-0", portfolioId |-> "portfolio-0", symbol |-> "IBM"] >>,
     transactions |-> <<>>]

\* the portfolios and holdings the backend holds when the provider mounts
RemotePortfolios ==
    << [id |-> "portfolio-9", name |-> "Remote"],
       [id |-> "portfolio-1", name |-> "Remote"] >>
RemoteHoldings ==
    << [id |-> "remote-holding-1", portfolioId |-> "portfolio-1", symbol |-> "AAPL"],
       [id |-> "remote-holding-9", portfolioId |-> "portfolio-9", symbol |-> "MSFT"] >>

\* arr.filter(h => h.portfolioId === portfolioId)
FilterByPortfolio(arr, portfolioId) ==
    SelectSeq(arr, LAMBDA h : h.portfolioId = portfolioId)

\* the texts that occur under the keys, and what safeParseMockData makes of
\* each of them (its result, and the text it leaves under the key)
StoredTexts ==
    { NoItem, MockWatchlistText, MockPortfolioText,
      Truncated(MockWatchlistText), Truncated(MockPortfolioText),
      StringifyWatchlistData(EarlierWatchlistData),
      StringifyPortfolioData(EarlierPortfolioData) }
ParsedTexts == [text \in StoredTexts |-> SafeParseMockData(text)]
TextsAfterParse == [text \in StoredTexts |-> AfterSafeParse(text)]

(***************************************************************************)
(* WatchlistProvider                                                       *)
(***************************************************************************)

\* useEffect(..., [watchlists, currentWatchlist, selectWatchlist]): the effect
\* runs after a render in which a dependency changed identity, and selects
\* the first watchlist when none is selected
AutoSelectNever(wl, refChanged, cur, curBefore) == FALSE   \* no such effect
AutoSelectsWhenNull(wl, refChanged, cur, curBefore) ==     \* in every commit
    cur = NoSelection /\ wl # <<>>
AutoSelects(wl, refChanged, cur, curBefore) ==
    /\ refChanged \/ (cur = NoSelection /\ curBefore # NoSelection)
    /\ cur = NoSelection
    /\ wl # <<>>

AutoField(wl, refChanged, cur, curBefore) ==
    IF AutoSelects(wl, refChanged, cur, curBefore) THEN wl[1].id ELSE "null"

\* One commit of the watchlist provider: the state set by a stretch of code,
\* then the auto-select effect.  selectWatchlist starts synchronously:
\* setLoading(true), setError(null), then the remote call is awaited.
WRender(wl, isConst, refChanged, cur, its, ld, err, cs) ==
    LET auto == AutoSelects(wl, refChanged, cur, currentWatchlist)
    IN  /\ watchlists' = wl
        /\ watchlistsIsConst' = isConst
        /\ currentWatchlist' = cur
        /\ items' = its
        /\ loading' = IF auto THEN TRUE ELSE ld
        /\ error' = IF auto THEN NoError ELSE err
        /\ calls' = IF auto
                    THEN Append(cs, Call("getWithItems", wl[1].id, "null", <<>>, NoCont, TRUE))
                    ELSE cs

WInvoke ==
    /\ provider = "watchlist"
    /\ invoked < MaxInvocations
    /\ Len(calls) < MaxInFlight
    /\ invoked' = invoked + 1

WFrame == UNCHANGED <<apiVars, rt, provider, portfolioVars, cached>>

\* fetchWatchlists(): setLoading(true); setError(null); await getAll()
FetchWatchlists ==
    /\ WInvoke
    /\ WRender(watchlists, watchlistsIsConst, FALSE, currentWatchlist, items, TRUE,
               EntryError(error),
               Append(calls, Call("getAll", "null", "null", <<>>, NoCont, FALSE)))
    /\ ev' = [name |-> "fetchWatchlists", recovering |-> (calls = <<>> /\ error # NoError)]
    /\ UNCHANGED <<localStorage, now, remote>>
    /\ WFrame

\* what a fetch leaves under the provider's key: nothing is written; a
\* failed fetch reads the record (and removes one that does not parse)
StoredAfterFetch(outcome, text) ==
    IF outcome = "ok" THEN text ELSE TextsAfterParse[text]

\* the catch block of fetchWatchlists: the stored mock data, else mockWatchlists
FetchFallbackDefaultOnly(mockData) == mockWatchlists   \* the stored record ignored
FetchFallbackStoredOnly(mockData) ==                   \* no default list
    IF HasMember(mockData, "watchlists") THEN mockData.val.watchlists ELSE <<>>
FetchFallback(mockData) ==
    IF HasMember(mockData, "watchlists") THEN mockData.val.watchlists ELSE mockWatchlists

\* currentWatchlists.some(w => w.id === response.data.id) in createWatchlist
WatchlistAssumed(wl, id) == TRUE                       \* no look at the list
WatchlistExists(wl, id) == id \in Ids(wl)

\* getAll() settles and fetchWatchlists runs to its end; then the operation
\* that awaited fetchWatchlists (create, update, delete) runs to its end:
\*   create: setWatchlists(current => { if the new id is there, selectWatchlist(id) })
\*   update: if (currentWatchlist?.id === watchlistId) setCurrentWatchlist(response.data)
\*   delete: if (currentWatchlist?.id === watchlistId) { setCurrentWatchlist(null); setItems([]) }
\* with the currentWatchlist of the render the operation was invoked in.
FetchWatchlistsSettles(i, outcome) ==
    /\ provider = "watchlist"
    /\ i \in DOMAIN calls
    /\ calls[i].op = "getAll"
    /\ LET k == calls[i].cont
           text == localStorage[WatchlistKey]
           mockData == ParsedTexts[text]
           via == IF outcome = "ok" THEN "remote"
                  ELSE IF HasMember(mockData, "watchlists") THEN "stored" ELSE "default"
           wl == IF outcome = "ok" THEN remote.watchlists ELSE FetchFallback(mockData)
           refChanged == ~(via = "default" /\ watchlistsIsConst)
           err == IF outcome = "ok" THEN error ELSE "err.message"
           rest == Overtake(calls, i, {"getAll"})
           selectNew == k.k = "create" /\ WatchlistExists(wl, k.id)
           affectsCurrent == k.k \in {"update", "delete"} /\ k.cur = k.id
           cur == IF affectsCurrent
                  THEN (IF k.k = "update" THEN k.data ELSE NoSelection)
                  ELSE currentWatchlist
           its == IF affectsCurrent /\ k.k = "delete" THEN <<>> ELSE items
       IN  /\ WRender(wl, via = "default", refChanged, cur, its,
                      selectNew,
                      IF selectNew THEN NoError ELSE err,
                      IF selectNew
                      THEN Append(rest, Call("getWithItems", k.id, "null", <<>>,
                                             [NoCont EXCEPT !.k = "created"], FALSE))
                      ELSE rest)
           /\ localStorage' =
                 [localStorage EXCEPT ![WatchlistKey] = StoredAfterFetch(outcome, text)]
           /\ ev' = [name |-> "fetchDone", via |-> via, after |-> k.k, id |-> k.id,
                     late |-> calls[i].overtaken,
                     recovered |-> (ev.name = "fetchWatchlists" /\ ev.recovering),
                     captured |-> k.cur, data |-> k.data,
                     auto |-> AutoField(wl, refChanged, cur, currentWatchlist)]
    /\ UNCHANGED <<invoked, now, remote>>
    /\ WFrame

\* selectWatchlist(id): setLoading(true); setError(null); await getWithItems(id)
SelectWatchlist(id) ==
    /\ WInvoke
    /\ WRender(watchlists, watchlistsIsConst, FALSE, currentWatchlist, items, TRUE,
               EntryError(error),
               Append(Switched(calls, id),
                      [Call("getWithItems", id, "null", <<>>, NoCont, FALSE)
                          EXCEPT !.switch = IF AddStockAwaits(calls, id) THEN id ELSE "null"]))
    /\ ev' = [name |-> "selectWatchlist", id |-> id,
              recovering |-> (calls = <<>> /\ error # NoError)]
    /\ UNCHANGED <<localStorage, now, remote>>
    /\ WFrame

\* getWithItems(id) settles and selectWatchlist runs to its end (and with it
\* addStock, when addStock awaited this selectWatchlist: finally setLoading(false))
SelectWatchlistSettles(i, outcome) ==
    /\ provider = "watchlist"
    /\ i \in DOMAIN calls
    /\ calls[i].op = "getWithItems"
    /\ outcome = "ok" => calls[i].arg \in Ids(remote.watchlists)
    /\ LET id == calls[i].arg
           text == localStorage[WatchlistKey]
           mockData == ParsedTexts[text]
           stored == HasMember(mockData, "watchlists") /\ HasMember(mockData, "items")
           via == IF outcome = "ok" THEN "remote" ELSE IF stored THEN "stored" ELSE "default"
           cur == CASE via = "remote" -> Find(remote.watchlists, id)
                    [] via = "stored" -> Find(mockData.val.watchlists, id)
                    [] OTHER -> Find(mockWatchlists, id)
           its == CASE via = "remote" -> FilterByWatchlist(remote.items, id)
                    [] via = "stored" -> FilterByWatchlist(mockData.val.items, id)
                    [] OTHER -> FilterByWatchlist(mockWatchlistItems, id)
           err == IF outcome = "ok" THEN error ELSE "err.message"
           missed == calls[i].switch = id /\ cur = NoSelection
       IN  /\ WRender(watchlists, watchlistsIsConst, FALSE, cur, its, FALSE, err,
                      Unswitched(Overtake(calls, i, {"getWithItems"}), missed))
           /\ localStorage' =
                 [localStorage EXCEPT ![WatchlistKey] =
                     IF outcome = "ok" THEN text ELSE TextsAfterParse[text]]
           /\ ev' = [name |-> "selectDone", id |-> id, via |-> via,
                     byRule |-> calls[i].byRule, late |-> calls[i].overtaken,
                     switch |-> IF missed THEN "null" ELSE calls[i].switch,
                     recovered |-> (ev.name = "selectWatchlist" /\ ev.recovering),
                     auto |-> AutoField(watchlists, FALSE, cur, currentWatchlist)]
    /\ UNCHANGED <<invoked, now, remote>>
    /\ WFrame

\* addStock(symbol, notes): returns at once when nothing is selected;
\* setLoading(true); await addStock(currentWatchlist.id, {symbol, notes})
AddStock(symbol) ==
    /\ WInvoke
    /\ currentWatchlist # NoSelection
    /\ WRender(watchlists, watchlistsIsConst, FALSE, currentWatchlist, items, TRUE, error,
               Append(calls, Call("addStock", symbol, currentWatchlist.id, items, NoCont, FALSE)))
    /\ ev' = [name |-> "addStock", symbol |-> symbol]
    /\ UNCHANGED <<localStorage, now, remote>>
    /\ WFrame

\* the item addStock makes up in its catch block
NewItemAsTyped(watchlistId, symbol, t) ==   \* the symbol kept as typed
    [id |-> LocalItemId(t), watchlistId |-> watchlistId, symbol |-> symbol]
NewItem(watchlistId, symbol, t) ==
    [id |-> LocalItemId(t), watchlistId |-> watchlistId, symbol |-> ToUpperCase(symbol)]

\* the remote addStock settles.
\*   success: await selectWatchlist(currentWatchlist.id), of the captured watchlist
\*   failure (error envelope or rejection): setItems([...items, newItem]) with the
\*   captured items; setError is not called; finally setLoading(false)
AddStockSettles(i, outcome) ==
    /\ provider = "watchlist"
    /\ i \in DOMAIN calls
    /\ calls[i].op = "addStock"
    /\ outcome = "ok" =>
          calls[i].cur \in Ids(remote.watchlists) /\ remote.added < MaxRemoteAdds
    /\ LET c == calls[i]
           rest == RemoveAt(calls, i)
       IN  IF outcome = "ok"
           THEN /\ now' = now
                /\ remote' =
                     [remote EXCEPT
                        !.added = @ + 1,
                        !.items = Append(@, [id |-> AddedIds[remote.added + 1],
                                             watchlistId |-> c.cur, symbol |-> c.arg])]
                /\ WRender(watchlists, watchlistsIsConst, FALSE, currentWatchlist, items,
                           TRUE, NoError,
                           Append(rest, [Call("getWithItems", c.cur, "null", <<>>,
                                              [NoCont EXCEPT !.k = "addStock"], FALSE)
                                            EXCEPT !.switch = c.switch]))
                /\ ev' = [name |-> "addStockRemote", symbol |-> c.arg]
           ELSE /\ now' \in now..MaxNow
                /\ remote' = remote
                /\ WRender(watchlists, watchlistsIsConst, FALSE, currentWatchlist,
                           Append(c.its, NewItem(c.cur, c.arg, now')),
                           FALSE, error, rest)
                /\ ev' = [name |-> "addStockLocal", symbol |-> c.arg, captured |-> c.its,
                          watchlistId |-> c.cur, errorBefore |-> error, at |-> now',
                          item |-> NewItem(c.cur, c.arg, now'), switch |-> c.switch,
                          prev |-> IF ev.name = "addStockLocal" THEN <<ev.item>> ELSE <<>>]
    /\ UNCHANGED <<localStorage, invoked>>
    /\ WFrame

\* removeStock(itemId): returns at once when nothing is selected;
\* setLoading(true); await removeStock(currentWatchlist.id, itemId)
RemoveStock(itemId) ==
    /\ WInvoke
    /\ currentWatchlist # NoSelection
    /\ WRender(watchlists, watchlistsIsConst, FALSE, currentWatchlist, items, TRUE, error,
               Append(calls, Call("removeStock", itemId, currentWatchlist.id, <<>>, NoCont, FALSE)))
    /\ ev' = [name |-> "removeStock", itemId |-> itemId,
              again |-> /\ ev.name = "removeStockDone"
                        /\ ev.outcome = "ok"
                        /\ ev.held
                        /\ ev.itemId = itemId]
    /\ UNCHANGED <<localStorage, now, remote>>
    /\ WFrame

\* the remote removeStock settles (the backend may answer the removal of an
\* item it does not hold with a success or with an error).
\*   success: setItems(prevItems => prevItems.filter(item => item.id !== itemId))
\*   error envelope: setError(response.error)
\*   then setLoading(false).  There is no try: a rejection leaves the operation
\*   before any of this.
RemoveStockSettles(i, outcome) ==
    /\ provider = "watchlist"
    /\ i \in DOMAIN calls
    /\ calls[i].op = "removeStock"
    /\ outcome = "ok" => calls[i].cur \in Ids(remote.watchlists)
    /\ LET c == calls[i]
           rest == RemoveAt(calls, i)
       IN  /\ CASE outcome = "ok" ->
                     /\ remote' = [remote EXCEPT !.items = Without(@, c.arg)]
                     /\ WRender(watchlists, watchlistsIsConst, FALSE, currentWatchlist,
                                Without(items, c.arg), FALSE, error, rest)
                [] outcome = "err" ->
                     /\ remote' = remote
                     /\ WRender(watchlists, watchlistsIsConst, FALSE, currentWatchlist,
                                items, FALSE, "response.error", rest)
                [] OTHER ->
                     /\ remote' = remote
                     /\ WRender(watchlists, watchlistsIsConst, FALSE, currentWatchlist,
                                items, loading, error, rest)
           /\ ev' = [name |-> "removeStockDone", itemId |-> c.arg, outcome |-> outcome,
                     itemsBefore |-> items, errorBefore |-> error,
                     held |-> c.arg \in Ids(items),
                     again |-> (ev.name = "removeStock" /\ ev.again /\ ev.itemId = c.arg)]
    /\ UNCHANGED <<localStorage, invoked, now>>
    /\ WFrame

\* createWatchlist(data): setLoading(true); await create(data)
CreateWatchlist ==
    /\ WInvoke
    /\ WRender(watchlists, watchlistsIsConst, FALSE, currentWatchlist, items, TRUE, error,
               Append(calls, Call("create", "null", "null", <<>>, NoCont, FALSE)))
    /\ ev' = [name |-> "createWatchlist"]
    /\ UNCHANGED <<localStorage, now, remote>>
    /\ WFrame

\* updateWatchlist(id, data): setLoading(true); await update(id, data)
UpdateWatchlist(id) ==
    /\ WInvoke
    /\ WRender(watchlists, watchlistsIsConst, FALSE, currentWatchlist, items, TRUE, error,
               Append(calls, Call("update", id, currentWatchlist.id, <<>>, NoCont, FALSE)))
    /\ ev' = [name |-> "updateWatchlist", id |-> id]
    /\ UNCHANGED <<localStorage, now, remote>>
    /\ WFrame

\* deleteWatchlist(id): setLoading(true); await delete(id)
DeleteWatchlist(id) ==
    /\ WInvoke
    /\ WRender(watchlists, watchlistsIsConst, FALSE, currentWatchlist, items, TRUE, error,
               Append(calls, Call("delete", id, currentWatchlist.id, <<>>, NoCont, FALSE)))
    /\ ev' = [name |-> "deleteWatchlist", id |-> id]
    /\ UNCHANGED <<localStorage, now, remote>>
    /\ WFrame

\* what the backend does on a successful create / update / delete
RemoteWrite(op, id) ==
    CASE op = "create" ->
           [remote EXCEPT !.created = @ + 1,
                          !.watchlists = Append(@, [id |-> id, name |-> "Created"])]
      [] op = "update" ->
           [remote EXCEPT !.watchlists =
               [j \in DOMAIN @ |-> IF @[j].id = id THEN [id |-> id, name |-> "Renamed"]
                                   ELSE @[j]]]
      [] OTHER ->
           [remote EXCEPT !.watchlists = Without(@, id),
                          !.items = SelectSeq(@, LAMBDA x : x.watchlistId # id)]

\* the remote create / update / delete settles.
\*   success: await fetchWatchlists() (which starts with setLoading(true),
\*            setError(null)); the rest follows when that fetch has settled
\*   error envelope: setError(response.error); rejection: setError(err.message)
\*   finally setLoading(false)
WriteSettles(i, outcome) ==
    /\ provider = "watchlist"
    /\ i \in DOMAIN calls
    /\ calls[i].op \in {"create", "update", "delete"}
    /\ outcome = "ok" =>
          IF calls[i].op = "create"
          THEN remote.created < MaxRemoteCreates
          ELSE calls[i].arg \in Ids(remote.watchlists)
    /\ LET c == calls[i]
           rest == RemoveAt(calls, i)
           id == IF c.op = "create" THEN CreatedIds[remote.created + 1] ELSE c.arg
           remote1 == RemoteWrite(c.op, id)
           cont == [k |-> c.op, id |-> id, cur |-> c.cur,
                    data |-> Find(remote1.watchlists, id)]
       IN  IF outcome = "ok"
           THEN /\ remote' = remote1
                /\ WRender(watchlists, watchlistsIsConst, FALSE, currentWatchlist, items,
                           TRUE, NoError,
                           Append(rest, Call("getAll", "null", "null", <<>>, cont, FALSE)))
                /\ ev' = [name |-> "writeDone", op |-> c.op, id |-> id]
           ELSE /\ remote' = remote
                /\ WRender(watchlists, watchlistsIsConst, FALSE, currentWatchlist, items,
                           FALSE,
                           IF outcome = "err" THEN "response.error" ELSE "err.message",
                           rest)
                /\ ev' = [name |-> "writeFailed", op |-> c.op, id |-> id]
    /\ UNCHANGED <<localStorage, invoked, now>>
    /\ WFrame

(***************************************************************************)
(* PortfolioProvider                                                       *)
(***************************************************************************)

\* useEffect(..., [portfolios, currentPortfolio, selectPortfolio])
PAutoSelects(pf, refChanged, cur, curBefore) ==
    /\ refChanged \/ (cur = NoSelection /\ curBefore # NoSelection)
    /\ cur = NoSelection
    /\ pf # <<>>

PAutoField(pf, refChanged, cur, curBefore) ==
    IF PAutoSelects(pf, refChanged, cur, curBefore) THEN pf[1].id ELSE "null"

\* One commit of the portfolio provider: the state set by a stretch of code,
\* then the auto-select effect (selectPortfolio starts with setLoading(true),
\* setError(null) and awaits getById).
PRender(pf, refChanged, cur, hs, ts, ld, err, cs) ==
    LET auto == PAutoSelects(pf, refChanged, cur, currentPortfolio)
    IN  /\ portfolios' = pf
        /\ currentPortfolio' = cur
        /\ holdings' = hs
        /\ transactions' = ts
        /\ loading' = IF auto THEN TRUE ELSE ld
        /\ error' = IF auto THEN NoError ELSE err
        /\ calls' = IF auto
                    THEN Append(cs, Call("getById", pf[1].id, "null", <<>>, NoCont, TRUE))
                    ELSE cs

PInvoke ==
    /\ provider = "portfolio"
    /\ invoked < MaxInvocations
    /\ Len(calls) < MaxInFlight
    /\ invoked' = invoked + 1

PFrame == UNCHANGED <<apiVars, rt, provider, watchlistVars, cached>>

\* fetchPortfolios(): setLoading(true); setError(null); await getAll()
FetchPortfolios ==
    /\ PInvoke
    /\ PRender(portfolios, FALSE, currentPortfolio, holdings, transactions, TRUE,
               EntryError(error),
               Append(calls, Call("getAllPortfolios", "null", "null", <<>>, NoCont, FALSE)))
    /\ ev' = [name |-> "fetchPortfolios", recovering |-> (calls = <<>> /\ error # NoError)]
    /\ UNCHANGED <<localStorage, now, remote>>
    /\ PFrame

\* getAll() settles and fetchPortfolios runs to its end:
\*   success: setPortfolios(list)
\*   error envelope or rejection: the stored mock portfolios, else setError
\*   setLoading(false)
\* then createPortfolio, when it awaited this fetch: selectPortfolio(id), not
\* awaited (it runs up to its first await); setLoading(false).
FetchPortfoliosSettles(i, outcome) ==
    /\ provider = "portfolio"
    /\ i \in DOMAIN calls
    /\ calls[i].op = "getAllPortfolios"
    /\ LET k == calls[i].cont
           text == localStorage[PortfolioKey]
           mockData == ParsedTexts[text]
           via == IF outcome = "ok" THEN "remote"
                  ELSE IF HasMember(mockData, "portfolios") THEN "stored" ELSE "none"
           pf == CASE via = "remote" -> remote.portfolios
                   [] via = "stored" -> mockData.val.portfolios
                   [] OTHER -> portfolios
           err == CASE via # "none" -> error
                    [] outcome = "err" -> "response.error"
                    [] OTHER -> "err.message"
           rest == Overtake(calls, i, {"getAllPortfolios"})
           created == k.k = "create"
       IN  /\ PRender(pf, via # "none", currentPortfolio, holdings, transactions,
                      FALSE,
                      IF created THEN NoError ELSE err,
                      IF created
                      THEN Append(rest, Call("getById", k.id, "null", <<>>,
                                             [NoCont EXCEPT !.k = "created"], FALSE))
                      ELSE rest)
           /\ localStorage' =
                 [localStorage EXCEPT ![PortfolioKey] = StoredAfterFetch(outcome, text)]
           /\ ev' = [name |-> "fetchDone", via |-> via, after |-> k.k, id |-> k.id,
                     late |-> calls[i].overtaken,
                     recovered |-> (ev.name = "fetchPortfolios" /\ ev.recovering),
                     captured |-> k.cur, data |-> k.data,
                     auto |-> PAutoField(pf, via # "none", currentPortfolio, currentPortfolio)]
    /\ UNCHANGED <<invoked, now, remote>>
    /\ PFrame

\* selectPortfolio(id): setLoading(true); setError(null); await getById(id)
SelectPortfolio(id) ==
    /\ PInvoke
    /\ PRender(portfolios, FALSE, currentPortfolio, holdings, transactions, TRUE,
               EntryError(error),
               Append(calls, Call("getById", id, "null", <<>>, NoCont, FALSE)))
    /\ ev' = [name |-> "selectPortfolio", id |-> id,
              recovering |-> (calls = <<>> /\ error # NoError)]
    /\ UNCHANGED <<localStorage, now, remote>>
    /\ PFrame

\* the mock-data branch of selectPortfolio: it needs portfolios, holdings and
\* transactions in the record, and the portfolio among them
MockHasPortfolio(mockData, id) ==
    /\ HasMember(mockData, "portfolios")
    /\ HasMember(mockData, "holdings")
    /\ HasMember(mockData, "transactions")
    /\ id \in Ids(mockData.val.portfolios)

\* the end of selectPortfolio when a remote call failed: the stored portfolio
\* with its holdings and transactions, else setError; setLoading(false)
SelectFromMock(i, outcome, name) ==
    LET id == calls[i].arg
        text == localStorage[PortfolioKey]
        mockData == ParsedTexts[text]
        found == MockHasPortfolio(mockData, id)
        cur == IF found THEN Find(mockData.val.portfolios, id) ELSE currentPortfolio
        hs == IF found THEN FilterByPortfolio(mockData.val.holdings, id) ELSE holdings
        ts == IF found THEN FilterByPortfolio(mockData.val.transactions, id) ELSE transactions
        err == CASE found -> error
                 [] outcome = "err" -> "response.error"
                 [] HasMember(mockData, "portfolios") /\ HasMember(mockData, "holdings")
                      /\ HasMember(mockData, "transactions") -> "Portfolio not found"
                 [] OTHER -> "err.message"
    IN  /\ PRender(portfolios, FALSE, cur, hs, ts, FALSE, err,
                   Overtake(calls, i, {"getById", "getHoldings"}))
        /\ localStorage' = [localStorage EXCEPT ![PortfolioKey] = TextsAfterParse[text]]
        /\ ev' = [name |-> name, id |-> id, via |-> IF found THEN "stored" ELSE "none",
                  byRule |-> calls[i].byRule, outcome |-> outcome,
                  late |-> calls[i].overtaken,
                  auto |-> PAutoField(portfolios, FALSE, cur, currentPortfolio)]

\* getById(id) settles.
\*   success: setCurrentPortfolio(data); await getHoldings(id)
\*   otherwise the mock-data branch
GetByIdSettles(i, outcome) ==
    /\ provider = "portfolio"
    /\ i \in DOMAIN calls
    /\ calls[i].op = "getById"
    /\ outcome = "ok" => calls[i].arg \in Ids(remote.portfolios)
    /\ LET id == calls[i].arg
           cur == Find(remote.portfolios, id)
       IN  IF outcome = "ok"
           THEN /\ PRender(portfolios, FALSE, cur, holdings, transactions, loading, error,
                           [calls EXCEPT ![i] =
                               [Call("getHoldings", id, "null", <<>>, NoCont,
                                     calls[i].byRule)
                                   EXCEPT !.overtaken = calls[i].overtaken]])
                /\ localStorage' = localStorage
                /\ ev' = [name |-> "getByIdDone", id |-> id, via |-> "remote",
                          byRule |-> calls[i].byRule, outcome |-> outcome,
                          late |-> calls[i].overtaken,
                          recovering |-> (ev.name = "selectPortfolio" /\ ev.recovering),
                          auto |-> "null"]
           ELSE SelectFromMock(i, outcome, "getByIdDone")
    /\ UNCHANGED <<invoked, now, remote>>
    /\ PFrame

\* getHoldings(id) settles.
\*   success: setHoldings(list); error envelope: setError(error);
\*   rejection: the mock-data branch of the catch block
\*   setLoading(false)
GetHoldingsSettles(i, outcome) ==
    /\ provider = "portfolio"
    /\ i \in DOMAIN calls
    /\ calls[i].op = "getHoldings"
    /\ outcome = "ok" => calls[i].arg \in Ids(remote.portfolios)
    /\ LET id == calls[i].arg
       IN  IF outcome = "throw"
           THEN SelectFromMock(i, outcome, "getHoldingsDone")
           ELSE /\ PRender(portfolios, FALSE, currentPortfolio,
                           IF outcome = "ok" THEN FilterByPortfolio(remote.holdings, id)
                           ELSE holdings,
                           transactions, FALSE,
                           IF outcome = "ok" THEN error ELSE "response.error",
                           Overtake(calls, i, {"getById", "getHoldings"}))
                /\ localStorage' = localStorage
                /\ ev' = [name |-> "getHoldingsDone", id |-> id, via |-> "remote",
                          byRule |-> calls[i].byRule, outcome |-> outcome,
                          late |-> calls[i].overtaken,
                          recovered |-> (/\ ev.name = "getByIdDone"
                                         /\ ev.via = "remote"
                                         /\ ev.recovering),
                          auto |-> "null"]
    /\ UNCHANGED <<invoked, now, remote>>
    /\ PFrame

\* createPortfolio(data): setLoading(true); await create(data)
CreatePortfolio ==
    /\ PInvoke
    /\ PRender(portfolios, FALSE, currentPortfolio, holdings, transactions, TRUE, error,
               Append(calls, Call("createPortfolio", "null", "null", <<>>, NoCont, FALSE)))
    /\ ev' = [name |-> "createPortfolio"]
    /\ UNCHANGED <<localStorage, now, remote>>
    /\ PFrame

\* the remote create settles.
\*   success: await fetchPortfolios() (setLoading(true), setError(null), getAll)
\*   error envelope: setError(response.error); setLoading(false)
\*   rejection: there is no try, the operation ends before anything is set
CreatePortfolioSettles(i, outcome) ==
    /\ provider = "portfolio"
    /\ i \in DOMAIN calls
    /\ calls[i].op = "createPortfolio"
    /\ outcome = "ok" => remote.created < MaxRemoteCreates
    /\ LET rest == RemoveAt(calls, i)
           id == CreatedIds[remote.created + 1]
       IN  CASE outcome = "ok" ->
                  /\ remote' = [remote EXCEPT
                                   !.created = @ + 1,
                                   !.portfolios = Append(@, [id |-> id, name |-> "Created"])]
                  /\ PRender(portfolios, FALSE, currentPortfolio, holdings, transactions,
                             TRUE, NoError,
                             Append(rest, Call("getAllPortfolios", "null", "null", <<>>,
                                               [NoCont EXCEPT !.k = "create", !.id = id],
                                               FALSE)))
             [] outcome = "err" ->
                  /\ remote' = remote
                  /\ PRender(portfolios, FALSE, currentPortfolio, holdings, transactions,
                             FALSE, "response.error", rest)
             [] OTHER ->
                  /\ remote' = remote
                  /\ PRender(portfolios, FALSE, currentPortfolio, holdings, transactions,
                             loading, error, rest)
    /\ ev' = [name |-> "createDone", outcome |-> outcome]
    /\ UNCHANGED <<localStorage, invoked, now>>
    /\ PFrame

(***************************************************************************)
(* Mock data tools (DevTools page)                                         *)
(***************************************************************************)

\* loadMockData(): both records are written from the module's constants
EnvFrame ==
    UNCHANGED <<apiVars, rt, provider, watchlistVars, portfolioVars, loading, error,
                calls, now, remote>>

LoadMockData ==
    /\ provider # "none"
    /\ invoked < MaxInvocations
    /\ invoked' = invoked + 1
    /\ ev' = [name |-> "loadMockData"]
    /\ localStorage' = [k \in StorageKeys |->
                           IF k = WatchlistKey THEN MockWatchlistText ELSE MockPortfolioText]
    /\ cached' = [k \in StorageKeys |->
                     IF k = WatchlistKey THEN MockWatchlistData ELSE MockPortfolioData]
    /\ EnvFrame

\* clearMockData(): both records are removed
ClearMockData ==
    /\ provider # "none"
    /\ invoked < MaxInvocations
    /\ invoked' = invoked + 1
    /\ ev' = [name |-> "clearMockData"]
    /\ localStorage' = [k \in StorageKeys |-> NoItem]
    /\ cached' = [k \in StorageKeys |-> NoSnapshot]
    /\ EnvFrame

(***************************************************************************)
(* The providers, from mount                                               *)
(***************************************************************************)

RemoteInit ==
    [watchlists |-> RemoteWatchlists, items |-> RemoteItems,
     portfolios |-> RemotePortfolios, holdings |-> RemoteHoldings,
     created |-> 0, added |-> 0]

\* what the page may find under the keys when it loads, with the data the
\* record was written from: nothing; the record of this build's loadMockData;
\* that record cut short; the record of an earlier build's loadMockData
StoredAtLoad ==
    { [text |-> StorageEmpty, data |-> [k \in StorageKeys |-> NoSnapshot]],
      [text |-> [k \in StorageKeys |->
                    IF k = WatchlistKey THEN MockWatchlistText ELSE MockPortfolioText],
       data |-> [k \in StorageKeys |->
                    IF k = WatchlistKey THEN MockWatchlistData ELSE MockPortfolioData]],
      [text |-> [k \in StorageKeys |->
                    IF k = WatchlistKey THEN Truncated(MockWatchlistText)
                    ELSE Truncated(MockPortfolioText)],
       data |-> [k \in StorageKeys |-> NoSnapshot]],
      [text |-> [k \in StorageKeys |->
                    IF k = WatchlistKey THEN StringifyWatchlistData(EarlierWatchlistData)
                    ELSE StringifyPortfolioData(EarlierPortfolioData)],
       data |-> [k \in StorageKeys |->
                    IF k = WatchlistKey THEN EarlierWatchlistData
                    ELSE EarlierPortfolioData]] }

\* The state after the first render and its effects: the mount effect has
\* called the fetch (setLoading(true), setError(null), getAll awaited); the
\* auto-select effect found an empty collection.
InitProviders ==
    /\ InitApiVars
    /\ authToken = FALSE
    /\ rt = RtIdle
    /\ \E s \in StoredAtLoad : localStorage = s.text /\ cached = s.data
    /\ provider \in {"watchlist", "portfolio"}
    /\ watchlists = <<>> /\ watchlistsIsConst = FALSE
    /\ currentWatchlist = NoSelection /\ items = <<>>
    /\ portfolios = <<>> /\ currentPortfolio = NoSelection
    /\ holdings = <<>> /\ transactions = <<>>
    /\ loading = TRUE /\ error = NoError
    /\ calls = << Call(IF provider = "watchlist" THEN "getAll" ELSE "getAllPortfolios",
                       "null", "null", <<>>, NoCont, FALSE) >>
    /\ invoked = 0 /\ now = 0
    /\ remote = RemoteInit
    /\ ev = [name |-> "mount"]

NextWatchlist ==
    \/ FetchWatchlists
    \/ \E i \in DOMAIN calls, o \in Outcomes : FetchWatchlistsSettles(i, o)
    \/ \E id \in Ids(watchlists) \cup {"unknown"} : SelectWatchlist(id)
    \/ \E i \in DOMAIN calls, o \in Outcomes : SelectWatchlistSettles(i, o)
    \/ \E s \in SymbolsTyped : AddStock(s)
    \/ \E i \in DOMAIN calls, o \in Outcomes : AddStockSettles(i, o)
    \/ \E id \in Ids(items) \cup (IF ev.name = "removeStockDone" THEN {ev.itemId} ELSE {}) :
          RemoveStock(id)
    \/ \E i \in DOMAIN calls, o \in Outcomes : RemoveStockSettles(i, o)
    \/ CreateWatchlist
    \/ \E id \in Ids(watchlists) : UpdateWatchlist(id)
    \/ \E id \in Ids(watchlists) : DeleteWatchlist(id)
    \/ \E i \in DOMAIN calls, o \in Outcomes : WriteSettles(i, o)

NextPortfolio ==
    \/ FetchPortfolios
    \/ \E i \in DOMAIN calls, o \in Outcomes : FetchPortfoliosSettles(i, o)
    \/ \E id \in Ids(portfolios) \cup {"unknown"} : SelectPortfolio(id)
    \/ \E i \in DOMAIN calls, o \in Outcomes : GetByIdSettles(i, o)
    \/ \E i \in DOMAIN calls, o \in Outcomes : GetHoldingsSettles(i, o)
    \/ CreatePortfolio
    \/ \E i \in DOMAIN calls, o \in Outcomes : CreatePortfolioSettles(i, o)

Next ==
    \/ NextWatchlist
    \/ NextPortfolio
    \/ LoadMockData
    \/ ClearMockData

Spec == InitProviders /\ [][Next]_vars

(***************************************************************************)
(* Claims about ApiClient (checked under SpecApi)                          *)
(***************************************************************************)

\* C8: request() never rejects to its caller: whatever the HTTP call does,
\* it settles by resolving to a success or an error envelope.
C8_NeverRejects ==
    apiPc \in {"done", "rejected"} => apiResult.settled = "resolved"

\* C9: once request() has returned for a response with status 401, no auth
\* token is stored, whatever the content type or the body of the response.
C9_401ClearsToken ==
    (apiPc \in {"done", "rejected"} /\ apiResp.status = 401) => ~authToken

\* C10 as stated: a call aborted by its timer returns the timeout envelope;
\* a call that was not aborted (its response arrived first, or the transport
\* failed) never returns the timeout code.
C10_TimeoutCodeOnlyFromTimer ==
    apiPc = "done" =>
        /\ aborted => apiResult = TimeoutError
        /\ ~aborted => apiResult.code # "TIMEOUT_ERROR"

\* C10 as amended: the timer fires at the timeout and only while no response
\* has arrived, and the aborted call returns the timeout envelope (never
\* NETWORK_ERROR or HTTP_<status>); a transport failure returns NETWORK_ERROR;
\* a call whose response arrived before the timer returns the timeout code
\* only when the JSON body of an error response carries that code itself.
C10_Timeout ==
    /\ aborted => elapsed = apiTimeout /\ apiResp = NoResp
    /\ apiPc = "done" =>
        /\ aborted => apiResult = TimeoutError
        /\ (~aborted /\ apiResp = NoResp) => apiResult = NetworkError
        /\ (~aborted /\ apiResp # NoResp /\ apiResult.code = "TIMEOUT_ERROR") =>
              /\ ~ResponseOk(apiResp.status)
              /\ apiResp.contentType = "json"
              /\ apiResp.code = "TIMEOUT_ERROR"

\* the default timer of 30 units fired on a call that had no response yet
C10_Witness ==
    /\ apiPc = "done"
    /\ aborted
    /\ apiTimeout = DefaultTimeout
    /\ elapsed = DefaultTimeout
    /\ apiResult = TimeoutError

(***************************************************************************)
(* Claims about the snapshot record (checked under SpecCache)              *)
(***************************************************************************)

\* C7: a snapshot written under the watchlist key, read back and filtered by
\* a parent id yields exactly the written items of that parent, in order.
C7_RoundTrip ==
    rt.pc = "filtered" =>
        /\ rt.data.val.watchlists = rt.snapshot.watchlists
        /\ rt.items = SelectSeq(rt.snapshot.items, LAMBDA x : x.watchlistId = rt.parent)

\* a snapshot with items of two parents went through the round trip
C7_Witness ==
    /\ rt.pc = "filtered"
    /\ Len(rt.items) = 1
    /\ Len(rt.snapshot.items) = 2
    /\ rt.items[1] = [id |-> "i1", watchlistId |-> "w1", symbol |-> "MSFT"]

(***************************************************************************)
(* Claims about the providers (checked under Spec)                         *)
(***************************************************************************)

\* the provider's collection, selection and storage key
Collection == IF provider = "watchlist" THEN watchlists ELSE portfolios
Current == IF provider = "watchlist" THEN currentWatchlist ELSE currentPortfolio
Key == IF provider = "watchlist" THEN WatchlistKey ELSE PortfolioKey
CollectionMember == IF provider = "watchlist" THEN "watchlists" ELSE "portfolios"
Quiescent == provider # "none" /\ calls = <<>>
RuleFired == "auto" \in DOMAIN ev /\ ev.auto # "null"

\* C1 as stated: whenever the operations have ended with a non-empty
\* collection, something is selected.
C1_Converges ==
    (Quiescent /\ Collection # <<>>) => Current # NoSelection

\* C1: the auto-selection rule invokes select(collection[0].id) only while
\* nothing is selected; a select invoked by the rule that the remote answers
\* selects that item; and the operations end with a non-empty collection and
\* nothing selected only with the error of a failed call recorded.
C1_AutoSelect ==
    provider # "none" =>
        /\ RuleFired =>
              /\ Current = NoSelection
              /\ Collection # <<>>
              /\ ev.auto = Collection[1].id
              /\ calls # <<>>
              /\ calls[Len(calls)].byRule
              /\ calls[Len(calls)].arg = ev.auto
              /\ calls[Len(calls)].op \in {"getWithItems", "getById"}
        /\ (ev.name \in {"selectDone", "getByIdDone"} /\ ev.byRule /\ ev.via = "remote") =>
              Current.id = ev.id
        /\ (Quiescent /\ Collection # <<>> /\ Current = NoSelection) => error # NoError

\* after the selected watchlist was deleted, the rule selected the first of
\* those that remain
C1_Witness ==
    /\ provider = "watchlist"
    /\ ev.name = "selectDone" /\ ev.byRule /\ ev.via = "remote"
    /\ remote.watchlists # RemoteWatchlists
    /\ currentWatchlist = watchlists[1]
    /\ Quiescent

\* C2: when the re-fetch of a successful deleteWatchlist(x) has settled,
\* remotely or from the mock data, then if x was the selected watchlist
\* nothing is selected and x is not in the collection, and otherwise the
\* selection is what it was.
C2_DeleteClearsSelection ==
    [][(ev'.name = "fetchDone" /\ ev'.after = "delete" /\ provider = "watchlist") =>
          IF ev'.captured = ev'.id
          THEN currentWatchlist' = NoSelection /\ ev'.id \notin Ids(watchlists')
          ELSE currentWatchlist' = currentWatchlist]_vars

\* C3: when the remote add fails, addStock leaves the items it was called
\* with plus one entry, with the upper-cased symbol and an id made from the
\* clock, and the error state as it was.
C3_AddStockDegrades ==
    ev.name = "addStockLocal" =>
        /\ Len(items) = Len(ev.captured) + 1
        /\ SubSeq(items, 1, Len(ev.captured)) = ev.captured
        /\ items[Len(items)].symbol = ToUpperCase(ev.symbol)
        /\ items[Len(items)].id = LocalItemId(ev.at)
        /\ items[Len(items)].watchlistId = ev.watchlistId
        /\ error = ev.errorBefore

\* a failed add of "aapl" to a watchlist with one item
C3_Witness ==
    /\ ev.name = "addStockLocal" /\ ev.symbol = "aapl"
    /\ Len(items) = 2
    /\ items[2] = [id |-> "item_1", watchlistId |-> "watchlist-1", symbol |-> "AAPL"]
    /\ error = NoError

\* C4: when removeStock(c) was called for an item in the list, succeeded, and
\* is called again at once, the second call leaves the items and the error
\* state as the first call left them.
C4_RemoveTwice ==
    (ev.name = "removeStockDone" /\ ev.again) =>
        items = ev.itemsBefore /\ error = ev.errorBefore

\* C5: when a fetch has fallen back to the stored mock data, the collection
\* is the collection of the data last written under the provider's key.
C5_FallbackIsCached ==
    (provider # "none" /\ ev.name = "fetchDone" /\ ev.via = "stored") =>
        /\ cached[Key] # NoSnapshot
        /\ Collection = cached[Key][CollectionMember]

\* a failed fetch took the watchlists of the stored record
C5_Witness ==
    /\ provider = "watchlist"
    /\ ev.name = "fetchDone" /\ ev.via = "stored"
    /\ watchlists = EarlierWatchlistData.watchlists
    /\ error # NoError

\* C6: after a fetch that the remote answered, the record under the
\* provider's key holds the fetched collection.
C6_FetchWritesCache ==
    (provider # "none" /\ ev.name = "fetchDone" /\ ev.via = "remote") =>
        /\ HasMember(SafeParseMockData(localStorage[Key]), CollectionMember)
        /\ SafeParseMockData(localStorage[Key]).val[CollectionMember] = Collection

(***************************************************************************)
(* Loading and error state                                                 *)
(***************************************************************************)

\* the step on which an operation of the provider returned to its caller
OperationReturned ==
    \/ ev.name \in {"fetchDone", "selectDone", "addStockLocal", "removeStockDone",
                    "writeFailed", "getHoldingsDone"}
    \/ ev.name = "getByIdDone" /\ ev.via # "remote"
    \/ ev.name = "createDone" /\ ev.outcome # "ok"

\* a selection was started in the commit of that step, by the auto-select
\* effect or by createWatchlist
SelectEntered ==
    \/ RuleFired
    \/ /\ provider = "watchlist"
       /\ ev.name = "fetchDone" /\ ev.after = "create"
       /\ ev.id \in Ids(watchlists)

\* C11: when an operation that sets loading on entry has returned, by
\* success, error envelope or exception, loading is false, unless a
\* selection was entered in the same commit.
C11_LoadingCleared ==
    (provider # "none" /\ OperationReturned /\ ~SelectEntered) => ~loading

\* the service call of a write operation failed, with an error envelope or
\* with an exception, and the operation is over
WriteFailed ==
    \/ ev.name \in {"removeStockDone", "createDone"} /\ ev.outcome # "ok"
    \/ ev.name = "writeFailed"

\* C12: when the service call of an operation has failed, by an error
\* envelope or by an exception, the operation has stored a message in the
\* error state.
C12_FailuresStored ==
    (provider # "none" /\ WriteFailed) => error # NoError

(***************************************************************************)
(* Fetch without the remote                                                *)
(***************************************************************************)

\* a selection was started in the commit of the step (it begins with
\* setError(null))
ErrorCleared ==
    \/ SelectEntered
    \/ provider = "portfolio" /\ ev.name = "fetchDone" /\ ev.after = "create"

\* C13: when a fetch whose remote call failed has taken the collection from
\* the stored record, the error state is not null, in both providers.
C13_DegradedFetchWarns ==
    (provider # "none" /\ ev.name = "fetchDone" /\ ev.via = "stored" /\ ~ErrorCleared) =>
        error # NoError

\* the statement of C14 as written: without a usable stored record a failed
\* fetch sets the error state and leaves the collection empty
C14_NoSnapshotEmpties ==
    (provider # "none" /\ ev.name = "fetchDone" /\ ev.via \in {"default", "none"}
       /\ ~ErrorCleared) =>
        error # NoError /\ Collection = <<>>

\* C14: when a fetch whose remote call failed has found no stored record, or
\* one that does not parse, the error state is set, the watchlists are the
\* default mockWatchlists, and the portfolios are what they were.
C14_NoSnapshotFetch ==
    [][(provider # "none" /\ ev'.name = "fetchDone" /\ ev'.via \in {"default", "none"}) =>
          /\ ~ErrorCleared' => error' # NoError
          /\ provider = "watchlist" => watchlists' = mockWatchlists
          /\ provider = "portfolio" => portfolios' = portfolios]_vars

\* a failed fetch without a stored record left portfolios in the collection
C14_Witness ==
    /\ provider = "portfolio"
    /\ ev.name = "fetchDone" /\ ev.via = "none"
    /\ localStorage[PortfolioKey] = NoItem
    /\ portfolios # <<>>
    /\ error # NoError

(***************************************************************************)
(* Records that do not parse                                               *)
(***************************************************************************)

Corrupt(text) ==
    text \in {Truncated(MockWatchlistText), Truncated(MockPortfolioText)}

\* the step ended an operation that read the record under the provider's key
SnapshotRead ==
    /\ ev.name \in {"fetchDone", "selectDone", "getByIdDone", "getHoldingsDone"}
    /\ ev.via # "remote"

AllOfWatchlist(list, id) == \A n \in DOMAIN list : list[n].watchlistId = id
AllOfPortfolio(list, id) == \A n \in DOMAIN list : list[n].portfolioId = id

\* C16: when a selection whose remote calls all succeeded is over, the
\* selected element has the id asked for and every list of children holds
\* children of that id only: the items, or the holdings and the transactions.
C16_SelectSetsAll ==
    /\ (provider = "watchlist" /\ ev.name = "selectDone" /\ ev.via = "remote") =>
          /\ currentWatchlist.id = ev.id
          /\ AllOfWatchlist(items, ev.id)
    /\ (provider = "portfolio" /\ ev.name = "getHoldingsDone" /\ ev.via = "remote"
          /\ ev.outcome = "ok") =>
          /\ currentPortfolio.id = ev.id
          /\ AllOfPortfolio(holdings, ev.id)
          /\ AllOfPortfolio(transactions, ev.id)

\* the ids the mock data of the watchlist provider can hold
MockKnownIds ==
    Ids(mockWatchlists) \cup
        (IF cached[WatchlistKey] # NoSnapshot
         THEN Ids(cached[WatchlistKey].watchlists) ELSE {})

\* a selection is over: the remote call failed and the mock data do not hold
\* the id
SelectMissed ==
    \/ /\ provider = "watchlist"
       /\ ev.name = "selectDone" /\ ev.via # "remote"
       /\ ev.id \notin MockKnownIds
    \/ /\ provider = "portfolio"
       /\ ev.name \in {"getByIdDone", "getHoldingsDone"} /\ ev.via = "none"

\* the statement of C17 as written: such a selection, of an id that is not
\* in the collection, ends with nothing selected, no children and loading
\* false
C17_SelectUnknownClears ==
    (SelectMissed /\ ev.id \notin Ids(Collection)) =>
        /\ Current = NoSelection
        /\ items = <<>> /\ holdings = <<>> /\ transactions = <<>>
        /\ ~RuleFired => ~loading

\* C17: a selection of an id that neither the remote nor the mock data hold
\* ends with loading false (unless the auto-select effect starts a
\* selection); selectWatchlist leaves nothing selected and no items,
\* selectPortfolio leaves the selection, the holdings and the transactions
\* as they were and sets the error state.
C17_SelectUnknown ==
    [][SelectMissed' =>
          /\ ~RuleFired' => ~loading'
          /\ provider = "watchlist" =>
                currentWatchlist' = NoSelection /\ items' = <<>>
          /\ provider = "portfolio" =>
                /\ currentPortfolio' = currentPortfolio
                /\ holdings' = holdings /\ transactions' = transactions
                /\ error' # NoError]_vars

\* selectPortfolio of an id outside the collection failed and the portfolio
\* selected before is still selected
C17_Witness ==
    /\ provider = "portfolio"
    /\ SelectMissed
    /\ ev.id \notin Ids(portfolios)
    /\ currentPortfolio # NoSelection
    /\ holdings # <<>>
    /\ ~loading

(***************************************************************************)
(* Create, update                                                          *)
(***************************************************************************)

\* the re-fetch that a create operation awaits for the id is in flight
RefetchPending(id) ==
    \E n \in DOMAIN calls :
        /\ calls[n].op \in {"getAll", "getAllPortfolios"}
        /\ calls[n].cont.k = "create" /\ calls[n].cont.id = id

\* the selection that a create operation makes of the id is in flight
SelectIssued(id) ==
    \E n \in DOMAIN calls :
        /\ calls[n].op \in {"getWithItems", "getById"}
        /\ calls[n].cont.k = "created" /\ calls[n].arg = id

\* the statement of C18 as written: the selection of the new id is not
\* issued while the re-fetch is in flight, and it is issued when the re-fetch
\* is over
C18_CreateAlwaysSelects ==
    /\ \A id \in Ids(remote.watchlists) \cup Ids(remote.portfolios) : RefetchPending(id) => ~SelectIssued(id)
    /\ (provider # "none" /\ ev.name = "fetchDone" /\ ev.after = "create") =>
          SelectIssued(ev.id)

\* C18: the selection of the new id is not issued while the re-fetch of the
\* create operation is in flight; when the re-fetch is over createPortfolio
\* issues it, and createWatchlist issues it exactly when the new id is in
\* the list the re-fetch has set.
C18_CreateThenSelect ==
    /\ \A id \in Ids(remote.watchlists) \cup Ids(remote.portfolios) : RefetchPending(id) => ~SelectIssued(id)
    /\ (provider # "none" /\ ev.name = "fetchDone" /\ ev.after = "create") =>
          (SelectIssued(ev.id) <=> (provider = "portfolio" \/ ev.id \in Ids(watchlists)))

\* the re-fetch of createWatchlist fell back to the mock data, which do not
\* hold the new watchlist, and no selection was issued
C18_Witness ==
    /\ provider = "watchlist"
    /\ ev.name = "fetchDone" /\ ev.after = "create" /\ ev.via # "remote"
    /\ ev.id \in Ids(remote.watchlists)
    /\ ev.id \notin Ids(watchlists)
    /\ ~SelectIssued(ev.id)

\* the remote create call of a create operation failed and the operation is
\* over
CreateFailed ==
    \/ provider = "watchlist" /\ ev.name = "writeFailed" /\ ev.op = "create"
    \/ provider = "portfolio" /\ ev.name = "createDone" /\ ev.outcome # "ok"

\* C19: when the remote create call has failed, by an error envelope or by
\* an exception, the error state is set, and the collection, the selection,
\* the children and the stored records are what they were.
C19_CreateFailureFrame ==
    [][CreateFailed' =>
          /\ error' # NoError
          /\ watchlists' = watchlists /\ portfolios' = portfolios
          /\ currentWatchlist' = currentWatchlist /\ currentPortfolio' = currentPortfolio
          /\ items' = items /\ holdings' = holdings /\ transactions' = transactions
          /\ localStorage' = localStorage]_vars

\* C20: when the re-fetch of a successful updateWatchlist(id, patch) has
\* settled, then if id is the id of the watchlist selected at that moment
\* the selected watchlist is the updated one the remote returned, and
\* otherwise the selection is what it was.
C20_UpdateRefreshesCurrent ==
    [][(provider = "watchlist" /\ ev'.name = "fetchDone" /\ ev'.after = "update") =>
          IF currentWatchlist.id = ev'.id
          THEN currentWatchlist' = ev'.data
          ELSE currentWatchlist' = currentWatchlist]_vars

(***************************************************************************)
(* Children                                                                *)
(***************************************************************************)

\* every call in flight after the step was in flight before it
NoNewCall == \A n \in DOMAIN calls' : \E m \in DOMAIN calls : calls'[n] = calls[m]

\* C21: a successful removeStock(itemId) takes the items with that id out of
\* the list and keeps the others in their order; a failed one leaves the
\* items and sets the error state; neither issues a remote call nor changes
\* the watchlists or the selection.
C21_RemoveStockFrame ==
    [][ev'.name = "removeStockDone" =>
          /\ watchlists' = watchlists
          /\ currentWatchlist' = currentWatchlist
          /\ NoNewCall
          /\ IF ev'.outcome = "ok"
             THEN items' = SelectSeq(items, LAMBDA x : x.id # ev'.itemId)
             ELSE items' = items /\ error' # NoError]_vars

(***************************************************************************)
(* Overlapping operations                                                  *)
(***************************************************************************)

Settles ==
    \E i \in DOMAIN calls, o \in Outcomes :
        \/ FetchWatchlistsSettles(i, o)
        \/ SelectWatchlistSettles(i, o)
        \/ AddStockSettles(i, o)
        \/ RemoveStockSettles(i, o)
        \/ WriteSettles(i, o)
        \/ FetchPortfoliosSettles(i, o)
        \/ GetByIdSettles(i, o)
        \/ GetHoldingsSettles(i, o)
        \/ CreatePortfolioSettles(i, o)

\* the providers with every remote call settling in the end
SpecLive == Spec /\ WF_vars(Settles)

\* the number of calls in flight that belong to selections made by the effect
RuleCalls(cs) == Cardinality({n \in DOMAIN cs : cs[n].byRule})

\* C24: a selection never changes the collection; the effect starts at most
\* one selection in a commit, only with nothing selected, and only in the
\* commit of a fetch or in one where the selection became null; and, every
\* remote call settling, the provider is again and again without a call in
\* flight.
C24_RuleDoesNotLoop ==
    /\ [][/\ ev'.name \in {"selectDone", "getByIdDone", "getHoldingsDone"} =>
                watchlists' = watchlists /\ portfolios' = portfolios
          /\ RuleCalls(calls') > RuleCalls(calls) =>
                /\ RuleCalls(calls') = RuleCalls(calls) + 1
                /\ Current' = NoSelection
                /\ ev'.name = "fetchDone" \/ Current # NoSelection]_vars
    /\ []<>(calls = <<>>)

\* the selection the effect made failed and left nothing selected, and
\* nothing is in flight
C24_Witness ==
    /\ provider = "watchlist"
    /\ ev.name = "selectDone" /\ ev.byRule /\ ev.via # "remote"
    /\ currentWatchlist = NoSelection
    /\ watchlists # <<>>
    /\ calls = <<>>

(***************************************************************************)
(* The two records                                                         *)
(***************************************************************************)

C26_CurrentInCollection ==
    (Quiescent /\ Current # NoSelection) => Current.id \in Ids(Collection)

\* C27: with no call in flight and an element selected, every item, holding
\* and transaction in the state belongs to the selected element.
C27_ChildrenOfCurrent ==
    (Quiescent /\ Current # NoSelection) =>
        IF provider = "watchlist"
        THEN AllOfWatchlist(items, currentWatchlist.id)
        ELSE /\ AllOfPortfolio(holdings, currentPortfolio.id)
             /\ AllOfPortfolio(transactions, currentPortfolio.id)


\* an element of a list
Holds(list, x) == \E n \in DOMAIN list : list[n] = x

\* C28: when two addStock calls overlap and the remote call of each fails, the
\* items afterwards hold both made-up entries, with distinct ids, and every
\* item the second call saw when it was invoked.
C28_BothAddsKept ==
    (ev.name = "addStockLocal" /\ ev.prev # <<>>) =>
        /\ ev.prev[1].id # ev.item.id
        /\ Holds(items, ev.prev[1])
        /\ Holds(items, ev.item)
        /\ \A n \in DOMAIN ev.captured : Holds(items, ev.captured[n])


\* C29: when the user selects watchlist B while an addStock on another
\* watchlist awaits its remote call, and B is found, then once both have
\* finished B is current and the items are those of B.
C29_AddStockKeepsCurrent ==
    (Quiescent /\ ev.name \in {"selectDone", "addStockLocal"} /\ ev.switch # "null") =>
        /\ currentWatchlist.id = ev.switch
        /\ AllOfWatchlist(items, ev.switch)

\* C30: while an operation of the provider has been entered and has not yet
\* returned, that is while one of its remote calls is awaited, loading is true.
C30_LoadingWhileInFlight ==
    (provider # "none" /\ calls # <<>>) => loading
====
